---- MODULE Spec2Model ----
(***************************************************************************)
(* Model of rofi-zotero.py: the catalog builder of main (author, title,    *)
(* date and path reconciliation, catalog sort), the two picker stages, the *)
(* opener / error step, the temporary database copy, and the pure label    *)
(* formatters format_authors, format_item and format_path.                 *)
(*                                                                         *)
(* Strings are sequences of one-character strings, so that slicing,        *)
(* concatenation, splitting and code-point comparison are computed as      *)
(* Python computes them.  A pathlib path is the sequence of its parts.     *)
(* A dict is the sequence of its <<key, value>> pairs in insertion order.  *)
(***************************************************************************)
EXTENDS Integers, Sequences, FiniteSets, TLC

(***************************************************************************)
(* Bounds of the model.                                                    *)
(***************************************************************************)
MaxAuthorRows == 4
MaxRows == 3
MaxPathLen == 4
MaxMaxlen == 3

(***************************************************************************)
(* Python str: comparison, slicing, split, join.                           *)
(***************************************************************************)
\* The one character U+2026 (horizontal ellipsis) of format_path.
Ellipsis == "U+2026"

\* The characters the model's strings are made of, in code-point order.
CharOrder ==
    <<" ", "'", "(", ")", ",", "-", ".", "/", "0", "1", "2", "3", "4", "5",
      "6", "7", "8", "9", ":", "A", "B", "C", "D", "E", "F", "G", "H", "I",
      "J", "K", "L", "M", "N", "O", "P", "Q", "R", "S", "T", "U", "V", "W",
      "X", "Y", "Z", "[", "]", "a", "b", "c", "d", "e", "f", "g", "h", "i",
      "j", "k", "l", "m", "n", "o", "p", "q", "r", "s", "t", "u", "v", "w",
      "x", "y", "z", Ellipsis>>

Ord(c) == CHOOSE i \in 1..Len(CharOrder) : CharOrder[i] = c

Min(a, b) == IF a < b THEN a ELSE b

Max(a, b) == IF a > b THEN a ELSE b

\* s < t for Python str: lexicographic by code point, a proper prefix first.
RECURSIVE StrLess(_, _)
StrLess(s, t) ==
    IF t = <<>> THEN FALSE
    ELSE IF s = <<>> THEN TRUE
    ELSE IF Head(s) = Head(t) THEN StrLess(Tail(s), Tail(t))
    ELSE Ord(Head(s)) < Ord(Head(t))

\* s[:n] for any integer n (a negative n counts from the end).
SliceTo(s, n) ==
    LET stop == IF n < 0 THEN Max(Len(s) + n, 0) ELSE Min(n, Len(s))
    IN  SubSeq(s, 1, stop)

\* s[n:] for any integer n (a negative n counts from the end; -0 is 0).
SliceFrom(s, n) ==
    LET start == IF n < 0 THEN Max(Len(s) + n, 0) ELSE Min(n, Len(s))
    IN  SubSeq(s, start + 1, Len(s))

StartsWith(s, prefix) ==
    Len(s) >= Len(prefix) /\ SubSeq(s, 1, Len(prefix)) = prefix

\* s.split(sep) for a one-character separator: the list of fields.
RECURSIVE Split(_, _)
Split(s, sep) ==
    IF \A i \in 1..Len(s) : s[i] # sep THEN <<s>>
    ELSE LET k == CHOOSE i \in 1..Len(s) :
                      s[i] = sep /\ \A j \in 1..(i - 1) : s[j] # sep
         IN  <<SubSeq(s, 1, k - 1)>> \o Split(SubSeq(s, k + 1, Len(s)), sep)

\* sep.join(list)
RECURSIVE Join(_, _)
Join(sep, xs) ==
    IF xs = <<>> THEN <<>>
    ELSE IF Len(xs) = 1 THEN xs[1]
    ELSE xs[1] \o sep \o Join(sep, Tail(xs))

(***************************************************************************)
(* Python dict, as the sequence of its items in insertion order.           *)
(***************************************************************************)
Has(d, k) == \E i \in 1..Len(d) : d[i][1] = k

Get(d, k) == d[CHOOSE i \in 1..Len(d) : d[i][1] = k][2]

\* d[k] = v
Put(d, k, v) ==
    IF Has(d, k)
    THEN [i \in 1..Len(d) |-> IF d[i][1] = k THEN <<k, v>> ELSE d[i]]
    ELSE Append(d, <<k, v>>)

\* None, for dict.get and for a NULL column: unequal to every str.
None == <<"None">>

\* No exception has been raised.
NoError == "NoError"

DictGet(d, k) == IF Has(d, k) THEN Get(d, k) ELSE None

(***************************************************************************)
(* list.sort() on (label, identifier) tuples: stable, ascending by "<".    *)
(***************************************************************************)
\* A comparison of the labels alone, the identifiers ignored.
TupleLessByLabelOnly(x, y) == StrLess(x[1], y[1])

\* (a, b) < (c, d) for Python tuples of (str, int).
TupleLess(x, y) ==
    \/ StrLess(x[1], y[1])
    \/ x[1] = y[1] /\ x[2] < y[2]

\* x goes before the first element it is less than, after its equals.
RECURSIVE InsertItem(_, _)
InsertItem(sorted, x) ==
    IF sorted = <<>> THEN <<x>>
    ELSE IF TupleLess(x, Head(sorted)) THEN <<x>> \o sorted
    ELSE <<Head(sorted)>> \o InsertItem(Tail(sorted), x)

RECURSIVE SortItems(_)
SortItems(xs) ==
    IF xs = <<>> THEN <<>>
    ELSE InsertItem(SortItems(SubSeq(xs, 1, Len(xs) - 1)), xs[Len(xs)])

(***************************************************************************)
(* pathlib.Path (PurePosixPath): a path is the sequence of its parts.      *)
(***************************************************************************)
Slash == <<"/">>

IsAbsolute(s) == StartsWith(s, Slash)

\* Path(s): the fields between slashes, without the empty ones and ".";
\* the root is "//" for exactly two leading slashes and "/" otherwise.
PathOf(s) ==
    LET fields == Split(s, "/")
        kept   == SelectSeq(fields, LAMBDA f : f # <<>> /\ f # <<".">>)
        root   == IF StartsWith(s, <<"/", "/">>) /\ ~StartsWith(s, <<"/", "/", "/">>)
                  THEN <<"/", "/">>
                  ELSE Slash
    IN  IF IsAbsolute(s) THEN <<root>> \o kept ELSE kept

\* p / s: an absolute right-hand side replaces the left-hand side.
PathJoin(p, s) == IF IsAbsolute(s) THEN PathOf(s) ELSE p \o PathOf(s)

HasRoot(p) == p # <<>> /\ StartsWith(p[1], Slash)

\* str(p)
PathStr(p) ==
    IF p = <<>> THEN <<".">>
    ELSE IF HasRoot(p) THEN p[1] \o Join(Slash, Tail(p))
    ELSE Join(Slash, p)

\* p.name: the last part, empty for a bare root.
PathName(p) ==
    IF p = <<>> \/ (HasRoot(p) /\ Len(p) = 1) THEN <<>> ELSE p[Len(p)]

\* p < q for paths: the part lists compared as Python lists of str.
RECURSIVE PathLess(_, _)
PathLess(p, q) ==
    IF q = <<>> THEN FALSE
    ELSE IF p = <<>> THEN TRUE
    ELSE IF Head(p) = Head(q) THEN PathLess(Tail(p), Tail(q))
    ELSE StrLess(Head(p), Head(q))

\* repr(p)
PathRepr(p) ==
    <<"P", "o", "s", "i", "x", "P", "a", "t", "h", "(", "'">>
        \o PathStr(p) \o <<"'", ")">>

\* str(list of paths)
ListStr(xs) ==
    <<"[">> \o Join(<<",", " ">>, [i \in 1..Len(xs) |-> PathRepr(xs[i])])
        \o <<"]">>

(***************************************************************************)
(* list.sort() on paths: stable, ascending by "<".                         *)
(***************************************************************************)
RECURSIVE InsertPath(_, _)
InsertPath(sorted, x) ==
    IF sorted = <<>> THEN <<x>>
    ELSE IF PathLess(x, Head(sorted)) THEN <<x>> \o sorted
    ELSE <<Head(sorted)>> \o InsertPath(Tail(sorted), x)

RECURSIVE SortPaths(_)
SortPaths(xs) ==
    IF xs = <<>> THEN <<>>
    ELSE InsertPath(SortPaths(SubSeq(xs, 1, Len(xs) - 1)), xs[Len(xs)])

(***************************************************************************)
(* The label formatters.                                                   *)
(***************************************************************************)
\* "{author1} and {author2}"
FORMAT_AUTHORS_TWO(author1, author2) ==
    author1 \o <<" ", "a", "n", "d", " ">> \o author2

\* "{author1} et al."
FORMAT_AUTHORS_MULTIPLE(author1) ==
    author1 \o <<" ", "e", "t", " ", "a", "l", ".">>

\* format_authors: defined for a non-empty list (author_list[0] is read).
format_authors(author_list) ==
    IF Len(author_list) = 1 THEN author_list[1]
    ELSE IF Len(author_list) = 2
    THEN FORMAT_AUTHORS_TWO(author_list[1], author_list[2])
    ELSE FORMAT_AUTHORS_MULTIPLE(author_list[1])

Unknown == <<"U", "n", "k", "n", "o", "w", "n">>

Dash == <<" ", "-", " ">>

\* " ({year})"
InParens(year) == <<" ", "(">> \o year \o <<")">>

\* Python truth of an optional str: None and "" are false.
Truthy(x) == x # None /\ x # <<>>

format_item(title, author, year) ==
    IF Truthy(author) /\ Truthy(year)
    THEN author \o InParens(year) \o Dash \o title
    ELSE IF Truthy(author) THEN author \o Dash \o title
    ELSE IF Truthy(year) THEN Unknown \o InParens(year) \o Dash \o title
    ELSE Unknown \o Dash \o title

\* round(num / den) for num >= 0, den > 0: Python rounds a half to even.
Round(num, den) ==
    LET q == num \div den
        r == num % den
    IN  IF 2 * r < den THEN q
        ELSE IF 2 * r > den THEN q + 1
        ELSE IF q % 2 = 0 THEN q ELSE q + 1

\* format_path; ending_fraction is the pair <<numerator, denominator>>.
format_path(path, maxlen, fullpath, ending_fraction) ==
    LET path_str   == IF ~fullpath THEN PathName(path) ELSE PathStr(path)
        char_end   == Round(maxlen * ending_fraction[1], ending_fraction[2]) - 1
        char_start == maxlen - char_end - 1
    IN  IF Len(path_str) <= maxlen THEN path_str
        ELSE SliceTo(path_str, char_start) \o <<Ellipsis>>
                 \o SliceFrom(path_str, -char_end)

FORMAT_PATH_MAXLEN == 80

FORMAT_PATH_FULLPATH == FALSE

FORMAT_PATH_ENDING_FRACTION == <<1, 2>>

(***************************************************************************)
(* The catalog builder's folds over the four row sequences.                *)
(***************************************************************************)
\* The author loop: a group is stored when the next identifier starts.
\* The state of the loop is id, author_list and the authors dict.
RECURSIVE AuthorLoop(_, _, _, _)
AuthorLoop(rows, id, author_list, amap) ==
    IF rows = <<>> THEN amap
    ELSE LET author_id == rows[1][1]
             author    == rows[1][2]
         IN  IF author_id # id
             THEN AuthorLoop(Tail(rows), author_id, <<author>>,
                             Put(amap, id, format_authors(author_list)))
             ELSE AuthorLoop(Tail(rows), id, Append(author_list, author), amap)

\* The authors dict after the loop, for a non-empty all_authors
\* (all_authors[0] is read before the loop).
FoldAuthorRows(rows) == AuthorLoop(rows, rows[1][1], <<>>, <<>>)

\* The titles dict (field 2 of a row) or the keys dict (field 3): the first
\* row of an identifier wins.
RECURSIVE FoldTitleRows(_, _, _)
FoldTitleRows(rows, field, d) ==
    IF rows = <<>> THEN d
    ELSE FoldTitleRows(Tail(rows), field,
                       IF Has(d, rows[1][1]) THEN d
                       ELSE Put(d, rows[1][1], rows[1][field]))

\* The years dict: the first row of an identifier wins; the year is date.split("-")[0].
RECURSIVE FoldDateRows(_, _)
FoldDateRows(rows, ymap) ==
    IF rows = <<>> THEN ymap
    ELSE FoldDateRows(Tail(rows),
                      IF Has(ymap, rows[1][1]) THEN ymap
                      ELSE Put(ymap, rows[1][1], Split(rows[1][2], "-")[1]))

AttachmentsPrefix ==
    <<"a", "t", "t", "a", "c", "h", "m", "e", "n", "t", "s", ":">>

StoragePrefix == <<"s", "t", "o", "r", "a", "g", "e", ":">>

_ZOTERO_STORAGE_DIR == <<"s", "t", "o", "r", "a", "g", "e">>

\* The configured directories of a run.
zotero_path == PathOf(<<"/", "z">>)

zotero_base_dir == PathOf(<<"/", "p">>)

\* A row is skipped when the str() of the identifier's path list equals
\* the raw path.
AlreadyRecorded(pmap, path_id, path) ==
    Has(pmap, path_id) /\ ListStr(Get(pmap, path_id)) = path

\* path.replace(prefix, "", 1) of a path that starts with prefix.
StripPrefix(path, prefix) == SliceFrom(path, Len(prefix))

\* The resolved path of a raw path that is not None.
ResolvePath(path, key) ==
    IF StartsWith(path, AttachmentsPrefix)
    THEN PathJoin(zotero_base_dir, StripPrefix(path, AttachmentsPrefix))
    ELSE IF StartsWith(path, StoragePrefix)
    THEN PathJoin(PathJoin(PathJoin(zotero_path, _ZOTERO_STORAGE_DIR), key),
                  StripPrefix(path, StoragePrefix))
    ELSE PathOf(path)

\* keys[path_id] is read only for a storage: path.
NeedsKey(path) ==
    ~StartsWith(path, AttachmentsPrefix) /\ StartsWith(path, StoragePrefix)

\* The path loop; the result is [raised, paths], raised being NoError or
\* the exception that ended the loop.
RECURSIVE PathLoop(_, _, _)
PathLoop(rows, kmap, pmap) ==
    IF rows = <<>> THEN [raised |-> NoError, paths |-> pmap]
    ELSE LET path_id == rows[1][1]
             path    == rows[1][2]
         IN  IF path = None THEN PathLoop(Tail(rows), kmap, pmap)
             ELSE IF AlreadyRecorded(pmap, path_id, path)
             THEN PathLoop(Tail(rows), kmap, pmap)
             ELSE IF NeedsKey(path) /\ ~Has(kmap, path_id)
             THEN [raised |-> "KeyError", paths |-> pmap]
             ELSE LET resolved == ResolvePath(path, DictGet(kmap, path_id))
                      old      == IF Has(pmap, path_id) THEN Get(pmap, path_id)
                                  ELSE <<>>
                  IN  PathLoop(Tail(rows), kmap,
                               Put(pmap, path_id, Append(old, resolved)))

\* item_list_with_ids before the sort: one pair per title, in dict order.
ItemPairs(tmap, amap, ymap) ==
    [i \in 1..Len(tmap) |->
        <<format_item(tmap[i][2], DictGet(amap, tmap[i][1]),
                      DictGet(ymap, tmap[i][1])),
          tmap[i][1]>>]

(***************************************************************************)
(* The inputs of a run: the library database and the --list flag.          *)
(***************************************************************************)
Ids == {1, 2}

Names == {<<"X">>, <<"Y">>}

Titles == {<<"A">>, <<"B">>}

Dates == {<<"2", "0", "2", "0", "-", "0", "5">>}

\* itemAttachments.path: NULL, a literal path, or a prefixed relative path.
RawPaths ==
    { None,
      <<"/", "b">>,
      AttachmentsPrefix \o <<"a">>,
      StoragePrefix \o <<"a">> }

Digits == <<"0", "1", "2", "3", "4", "5", "6", "7", "8", "9">>

\* The key of the attachment item of row i: one key per attachment.
KeyOf(i) == <<"K", Digits[i + 1]>>

SeqsUpTo(S, n) == UNION {[1..k -> S] : k \in 0..n}

\* Rows of _QUERY_AUTHORS: (itemID, Lastname).
AuthorRowSeqs(n) == SeqsUpTo(Ids \X Names, n)

\* Rows of _QUERY_DATES: (itemID, value): no row, or one row of one item.
DateRowSeqs == {<<>>} \cup {<<<<id, date>>>> : id \in Ids, date \in Dates}

\* Author rows of the runs that explore the attachments: two complete
\* groups and the last one.
SomeAuthorRows ==
    <<<<2, <<"X">>>>, <<2, <<"Y">>>>, <<1, <<"Y">>>>, <<3, <<"X">>>>>>

\* Author rows of the runs that explore the catalog: no row, one complete
\* group and the last one, or SomeAuthorRows.
FewAuthorRows ==
    { <<>>, <<<<1, <<"X">>>>, <<2, <<"Y">>>>>>, SomeAuthorRows }

\* Attachments of the runs that explore the author rows.
FewAttachments ==
    { <<>>,
      <<<<1, <<"/", "b">>>>, <<2, <<"/", "b">>>>, <<2, StoragePrefix \o <<"a">>>>>> }

\* The attachments the joins of _QUERY_TITLES and _QUERY_PATHS select:
\* (parent itemID, path).
AttachmentSeqs(n) == SeqsUpTo(Ids \X RawPaths, n)

\* Rows of _QUERY_TITLES: (parent itemID, parent title, attachment key).
TitleRows(db) ==
    [i \in 1..Len(db.attachments) |->
        <<db.attachments[i][1], db.title_of[db.attachments[i][1]], KeyOf(i)>>]

\* Rows of _QUERY_PATHS: (parent itemID, path), over the same join.
PathRows(db) == db.attachments

VARIABLES
    database,           \* the library: authors, attachments, title_of, dates
    list,               \* main's list argument
    pc,                 \* the statement main is at
    raised,             \* the exception that ended main, or NoError
    database_copy,      \* whether the temporary copy exists on disk
    all_authors, all_titles, all_dates, all_paths,
    authors, titles, keys, years, paths,
    item_list_with_ids,
    printed,            \* what print() has written to stdout
    selected_index,     \* rofi's stripped stdout, per picker
    item_id,
    files,              \* the display strings of the second picker
    file_to_open,
    file_exists,        \* the results file_to_open.exists() has returned
    opened,             \* the paths open_file was called with
    shown               \* the messages show_error was called with

\* format_path's own inputs and result.
VARIABLES fp_path, fp_maxlen, fp_fullpath, fp_ending_fraction, fp_result

mainVars ==
    <<database, list, pc, raised, database_copy, all_authors, all_titles,
      all_dates, all_paths, authors, titles, keys, years, paths,
      item_list_with_ids, printed, selected_index, item_id, files,
      file_to_open, file_exists, opened, shown>>

fpVars == <<fp_path, fp_maxlen, fp_fullpath, fp_ending_fraction, fp_result>>

vars == <<mainVars, fpVars>>

(***************************************************************************)
(* main, one action per stretch of code between two calls to the outside.  *)
(***************************************************************************)
InitMain(authorRows, attachmentRows, titleMaps, dateRows) ==
    /\ database \in [authors : authorRows, attachments : attachmentRows,
                     title_of : titleMaps, dates : dateRows]
    /\ list \in BOOLEAN
    /\ pc = "copy"
    /\ raised = NoError
    /\ database_copy = FALSE
    /\ all_authors = <<>> /\ all_titles = <<>>
    /\ all_dates = <<>> /\ all_paths = <<>>
    /\ authors = <<>> /\ titles = <<>> /\ keys = <<>>
    /\ years = <<>> /\ paths = <<>>
    /\ item_list_with_ids = <<>>
    /\ printed = <<>>
    /\ selected_index = None
    /\ item_id = 0
    /\ files = <<>>
    /\ file_to_open = None
    /\ file_exists = <<>>
    /\ opened = <<>>
    /\ shown = <<>>

InitNoFormatPath ==
    /\ fp_path = <<>> /\ fp_maxlen = FORMAT_PATH_MAXLEN
    /\ fp_fullpath = FORMAT_PATH_FULLPATH
    /\ fp_ending_fraction = FORMAT_PATH_ENDING_FRACTION
    /\ fp_result = None

\* An unhandled exception ends main.
Raise(exception) == pc' = "done" /\ raised' = exception

\* return
Return == pc' = "done" /\ raised' = NoError

\* The exit status of the interpreter once main has ended.
ExitStatus == IF raised = NoError THEN 0 ELSE 1

inputVars == <<database, list>>

rowVars == <<all_authors, all_titles, all_dates, all_paths>>

dictVars == <<authors, titles, keys, years, paths>>

pickVars == <<selected_index, item_id, files, file_to_open>>

effectVars == <<printed, file_exists, opened, shown>>

\* shutil.copy2 of the library database to the temporary directory.
CopyDatabase ==
    /\ pc = "copy"
    /\ \E ok \in BOOLEAN :
          IF ok THEN /\ database_copy' = TRUE
                     /\ pc' = "query_authors"
                     /\ UNCHANGED raised
          ELSE /\ Raise("FileNotFoundError")
               /\ UNCHANGED database_copy
    /\ UNCHANGED <<inputVars, rowVars, dictVars, item_list_with_ids, pickVars,
                   effectVars, fpVars>>

\* get_item_info: the rows of the query, or sqlite3's exception.
get_item_info(rows, ok) == IF ok THEN rows ELSE "sqlite3.Error"

QueryAuthors ==
    /\ pc = "query_authors"
    /\ \E ok \in BOOLEAN :
          IF ok THEN /\ all_authors' = get_item_info(database.authors, ok)
                     /\ pc' = "query_titles"
                     /\ UNCHANGED raised
          ELSE /\ Raise(get_item_info(database.authors, ok))
               /\ UNCHANGED all_authors
    /\ UNCHANGED <<inputVars, database_copy, all_titles, all_dates, all_paths,
                   dictVars, item_list_with_ids, pickVars, effectVars, fpVars>>

QueryTitles ==
    /\ pc = "query_titles"
    /\ \E ok \in BOOLEAN :
          IF ok THEN /\ all_titles' = get_item_info(TitleRows(database), ok)
                     /\ pc' = "query_dates"
                     /\ UNCHANGED raised
          ELSE /\ Raise(get_item_info(TitleRows(database), ok))
               /\ UNCHANGED all_titles
    /\ UNCHANGED <<inputVars, database_copy, all_authors, all_dates, all_paths,
                   dictVars, item_list_with_ids, pickVars, effectVars, fpVars>>

QueryDates ==
    /\ pc = "query_dates"
    /\ \E ok \in BOOLEAN :
          IF ok THEN /\ all_dates' = get_item_info(database.dates, ok)
                     /\ pc' = "query_paths"
                     /\ UNCHANGED raised
          ELSE /\ Raise(get_item_info(database.dates, ok))
               /\ UNCHANGED all_dates
    /\ UNCHANGED <<inputVars, database_copy, all_authors, all_titles, all_paths,
                   dictVars, item_list_with_ids, pickVars, effectVars, fpVars>>

QueryPaths ==
    /\ pc = "query_paths"
    /\ \E ok \in BOOLEAN :
          IF ok THEN /\ all_paths' = get_item_info(PathRows(database), ok)
                     /\ pc' = "remove"
                     /\ UNCHANGED raised
          ELSE /\ Raise(get_item_info(PathRows(database), ok))
               /\ UNCHANGED all_paths
    /\ UNCHANGED <<inputVars, database_copy, all_authors, all_titles, all_dates,
                   dictVars, item_list_with_ids, pickVars, effectVars, fpVars>>

\* os.remove(database_copy)
RemoveCopy ==
    /\ pc = "remove"
    /\ database_copy' = FALSE
    /\ pc' = "fold_authors"
    /\ UNCHANGED <<inputVars, raised, rowVars, dictVars, item_list_with_ids,
                   pickVars, effectVars, fpVars>>

\* id = all_authors[0][0] and the author loop.
FoldAuthors ==
    /\ pc = "fold_authors"
    /\ IF all_authors = <<>>
       THEN /\ Raise("IndexError")
            /\ UNCHANGED authors
       ELSE /\ authors' = FoldAuthorRows(all_authors)
            /\ pc' = "fold_titles"
            /\ UNCHANGED raised
    /\ UNCHANGED <<inputVars, database_copy, rowVars, titles, keys, years, paths,
                   item_list_with_ids, pickVars, effectVars, fpVars>>

FoldTitles ==
    /\ pc = "fold_titles"
    /\ titles' = FoldTitleRows(all_titles, 2, <<>>)
    /\ keys' = FoldTitleRows(all_titles, 3, <<>>)
    /\ pc' = "fold_dates"
    /\ UNCHANGED <<inputVars, raised, database_copy, rowVars, authors, years,
                   paths, item_list_with_ids, pickVars, effectVars, fpVars>>

FoldDates ==
    /\ pc = "fold_dates"
    /\ years' = FoldDateRows(all_dates, <<>>)
    /\ pc' = "resolve_paths"
    /\ UNCHANGED <<inputVars, raised, database_copy, rowVars, authors, titles,
                   keys, paths, item_list_with_ids, pickVars, effectVars, fpVars>>

ResolvePaths ==
    /\ pc = "resolve_paths"
    /\ LET result == PathLoop(all_paths, keys, <<>>)
       IN  /\ paths' = result.paths
           /\ IF result.raised = NoError
              THEN pc' = "assemble" /\ UNCHANGED raised
              ELSE Raise(result.raised)
    /\ UNCHANGED <<inputVars, database_copy, rowVars, authors, titles, keys,
                   years, item_list_with_ids, pickVars, effectVars, fpVars>>

\* item_list: the labels of item_list_with_ids.
ItemList(items) == [i \in 1..Len(items) |-> items[i][1]]

\* The catalog, sorted, and its print-out under --list.
AssembleCatalog ==
    /\ pc = "assemble"
    /\ item_list_with_ids' = SortItems(ItemPairs(titles, authors, years))
    /\ IF list
       THEN /\ printed' = ItemList(item_list_with_ids')
            /\ Return
       ELSE /\ pc' = "pick_item"
            /\ UNCHANGED <<printed, raised>>
    /\ UNCHANGED <<inputVars, database_copy, rowVars, dictVars, pickVars,
                   file_exists, opened, shown, fpVars>>

(***************************************************************************)
(* The two picker stages and the opener.                                   *)
(***************************************************************************)
\* rofi -dmenu -format i on n candidates: the stripped stdout is empty when
\* the user cancels, and the 0-based index of the chosen line otherwise.
PickerResults(n) == {<<>>} \cup {<<Digits[i + 1]>> : i \in 0..(n - 1)}

\* The empty result taken for a selection.
CancelledNever(index) == FALSE

\* "if not selected_index"
Cancelled(index) == index = <<>>

\* Whether int(index) returns a value.
IsInt(index) ==
    Len(index) = 1 /\ \E i \in 1..Len(Digits) : Digits[i] = index[1]

\* int(index) of a one-digit string.
ParseInt(index) == (CHOOSE i \in 1..Len(Digits) : Digits[i] = index[1]) - 1

\* The display strings of the second picker.
FormatFiles(files_to_open) ==
    [i \in 1..Len(files_to_open) |->
        format_path(files_to_open[i], FORMAT_PATH_MAXLEN, FORMAT_PATH_FULLPATH,
                    FORMAT_PATH_ENDING_FRACTION)]

\* The list left in the order of the rows.
SortInPlaceSkipped(pmap, id) == pmap

\* files_to_open = paths[item_id] is the dict's own list: files_to_open.sort()
\* sorts the list held by paths.
SortInPlace(pmap, id) == Put(pmap, id, SortPaths(Get(pmap, id)))

\* The first picker, and the selected item's attachments.
PickItem ==
    /\ pc = "pick_item"
    /\ \E index \in PickerResults(Len(item_list_with_ids)) :
          /\ selected_index' = index
          /\ IF Cancelled(index)
             THEN /\ Return
                  /\ UNCHANGED <<item_id, paths, files, file_to_open>>
             ELSE IF ~IsInt(index)
             THEN /\ Raise("ValueError")
                  /\ UNCHANGED <<item_id, paths, files, file_to_open>>
             ELSE LET id == item_list_with_ids[ParseInt(index) + 1][2]
                  IN  /\ item_id' = id
                      /\ IF ~Has(paths, id)
                         THEN /\ Raise("KeyError")
                              /\ UNCHANGED <<paths, files, file_to_open>>
                         ELSE /\ paths' = SortInPlace(paths, id)
                              /\ UNCHANGED raised
                              /\ IF Len(Get(paths', id)) = 1
                                 THEN /\ file_to_open' = Get(paths', id)[1]
                                      /\ pc' = "open"
                                      /\ UNCHANGED files
                                 ELSE /\ files' = FormatFiles(Get(paths', id))
                                      /\ pc' = "pick_attachment"
                                      /\ UNCHANGED file_to_open
    /\ UNCHANGED <<inputVars, database_copy, rowVars, authors, titles, keys,
                   years, item_list_with_ids, effectVars, fpVars>>

\* The second picker.
PickAttachment ==
    /\ pc = "pick_attachment"
    /\ \E index \in PickerResults(Len(files)) :
          /\ selected_index' = index
          /\ IF Cancelled(index)
             THEN /\ Return
                  /\ UNCHANGED file_to_open
             ELSE IF ~IsInt(index)
             THEN /\ Raise("ValueError")
                  /\ UNCHANGED file_to_open
             ELSE /\ file_to_open' = Get(paths, item_id)[ParseInt(index) + 1]
                  /\ pc' = "open"
                  /\ UNCHANGED raised
    /\ UNCHANGED <<inputVars, database_copy, rowVars, dictVars,
                   item_list_with_ids, item_id, files, effectVars, fpVars>>

\* f"Could not find file: {file_to_open}"
ErrorMessage(path) ==
    <<"C", "o", "u", "l", "d", " ", "n", "o", "t", " ", "f", "i", "n", "d", " ",
      "f", "i", "l", "e", ":", " ">> \o PathStr(path)

\* open_file called whether or not the file exists.
ShouldOpenAlways(exists) == TRUE

\* "if file_to_open.exists()": whether open_file is called.
ShouldOpen(exists) == exists

\* open_file when the file exists, show_error otherwise; main then ends.
OpenOrShowError ==
    /\ pc = "open"
    /\ \E exists \in BOOLEAN :
          /\ file_exists' = Append(file_exists, exists)
          /\ IF ShouldOpen(exists)
             THEN /\ opened' = Append(opened, file_to_open)
                  /\ UNCHANGED shown
             ELSE /\ shown' = Append(shown, ErrorMessage(file_to_open))
                  /\ UNCHANGED opened
    /\ Return
    /\ UNCHANGED <<inputVars, database_copy, rowVars, dictVars,
                   item_list_with_ids, pickVars, printed, fpVars>>

Next ==
    \/ CopyDatabase
    \/ QueryAuthors
    \/ QueryTitles
    \/ QueryDates
    \/ QueryPaths
    \/ RemoveCopy
    \/ FoldAuthors
    \/ FoldTitles
    \/ FoldDates
    \/ ResolvePaths
    \/ AssembleCatalog
    \/ PickItem
    \/ PickAttachment
    \/ OpenOrShowError

\* Title of each item: item 2 sorts before item 1.
TitleMaps == {[id \in Ids |-> IF id = 1 THEN <<"B">> ELSE <<"A">>]}

\* Runs over every attachment sequence, with one author sequence and with
\* or without a date.
Init ==
    /\ InitMain({SomeAuthorRows}, AttachmentSeqs(MaxRows), TitleMaps,
                {<<>>, <<<<1, <<"2", "0", "2", "0", "-", "0", "5">>>>>>})
    /\ InitNoFormatPath

Spec == Init /\ [][Next]_vars

\* Runs over every author sequence, with a few attachment sequences.
InitAuthors ==
    /\ InitMain(AuthorRowSeqs(MaxAuthorRows), FewAttachments, TitleMaps, {<<>>})
    /\ InitNoFormatPath

SpecAuthors == InitAuthors /\ [][Next]_vars

\* Runs over the catalogs of three items with every choice of titles, each
\* attachment being the same literal path.
CatalogIds == Ids \cup {3}

CatalogAttachmentSeqs == SeqsUpTo(CatalogIds \X {<<"/", "b">>}, MaxRows)

InitCatalog ==
    /\ InitMain(FewAuthorRows, CatalogAttachmentSeqs, [CatalogIds -> Titles],
                DateRowSeqs)
    /\ InitNoFormatPath

SpecCatalog == InitCatalog /\ [][Next]_vars

(***************************************************************************)
(* format_path on its own: every input within the bounds, then one call.   *)
(***************************************************************************)
Alphabet == <<"a", "b", "c", "d", "e", "f", "g", "h">>

\* File names of every length up to MaxPathLen, alone or under a directory.
PathInputs ==
    {<<SliceTo(Alphabet, n)>> : n \in 1..MaxPathLen}
        \cup {<<Slash, <<"x">>, SliceTo(Alphabet, n)>> : n \in 1..MaxPathLen}

\* ending_fraction: 0, 0.25, 0.5, 0.75 and 1, which floats hold exactly.
EndingFractions == {<<0, 1>>, <<1, 4>>, <<1, 2>>, <<3, 4>>, <<1, 1>>}

InitFormatPath ==
    /\ InitMain({<<>>}, {<<>>}, {[id \in Ids |-> <<"A">>]}, {<<>>})
    /\ fp_path \in PathInputs
    /\ fp_maxlen \in 1..MaxMaxlen
    /\ fp_fullpath \in BOOLEAN
    /\ fp_ending_fraction \in EndingFractions
    /\ fp_result = None

CallFormatPath ==
    /\ fp_result = None
    /\ fp_result' = format_path(fp_path, fp_maxlen, fp_fullpath, fp_ending_fraction)
    /\ UNCHANGED <<mainVars, fp_path, fp_maxlen, fp_fullpath, fp_ending_fraction>>

NextFormatPath == CallFormatPath

SpecFormatPath == InitFormatPath /\ [][NextFormatPath]_vars

(***************************************************************************)
(* The claims.                                                             *)
(***************************************************************************)
Range(xs) == {xs[i] : i \in 1..Len(xs)}

\* The identifiers of a row sequence.
RowIds(rows) == {rows[i][1] : i \in 1..Len(rows)}

\* Each identifier's rows are adjacent.
Contiguous(rows) ==
    \A i, j \in 1..Len(rows) :
        (i < j /\ rows[i][1] = rows[j][1])
            => \A k \in i..j : rows[k][1] = rows[i][1]

\* The second fields of the rows of one identifier, in row order.
RECURSIVE RowValues(_, _)
RowValues(rows, id) ==
    IF rows = <<>> THEN <<>>
    ELSE (IF rows[1][1] = id THEN <<rows[1][2]>> ELSE <<>>)
             \o RowValues(Tail(rows), id)

\* One name, "A and B", or "A et al.".
AuthorTemplate(names) ==
    IF Len(names) = 1 THEN names[1]
    ELSE IF Len(names) = 2
    THEN names[1] \o <<" ", "a", "n", "d", " ">> \o names[2]
    ELSE names[1] \o <<" ", "e", "t", " ", "a", "l", ".">>

\* C1: once the author loop has run over a non-empty author row sequence
\* whose identifiers are contiguous, the author map has an entry for every
\* identifier of the sequence, the last run's included, and the entry is
\* the one-, two- or many-author template of that identifier's names.
C1_EveryAuthorGroupStored ==
    (pc = "fold_titles" /\ all_authors # <<>> /\ Contiguous(all_authors))
        => \A id \in RowIds(all_authors) :
               /\ Has(authors, id)
               /\ Get(authors, id) = AuthorTemplate(RowValues(all_authors, id))

NoDuplicates(xs) == \A i, j \in 1..Len(xs) : i # j => xs[i] # xs[j]

\* C2: after the path loop no identifier's path list holds the same
\* resolved path twice.
C2_NoDuplicatePaths ==
    pc = "assemble" => \A i \in 1..Len(paths) : NoDuplicates(paths[i][2])

\* The place of an identifier in the titles dict: the order of first sight.
FirstSeen(id) == CHOOSE i \in 1..Len(titles) : titles[i][1] = id

\* The catalog is the titles dict's identifiers, each once, in label order.
CatalogSortedByLabel ==
    /\ Len(item_list_with_ids) = Len(titles)
    /\ \A i \in 1..Len(titles) :
           \E j \in 1..Len(item_list_with_ids) :
               item_list_with_ids[j][2] = titles[i][1]
    /\ \A i, j \in 1..Len(item_list_with_ids) :
           i < j => ~StrLess(item_list_with_ids[j][1], item_list_with_ids[i][1])

\* C3 as stated: the catalog given to the first picker is ascending by
\* label, and entries of equal label are in the order in which their
\* identifiers were first seen in the title rows.
C3_TiesInFirstSeenOrder ==
    pc = "pick_item" =>
        /\ CatalogSortedByLabel
        /\ \A i, j \in 1..Len(item_list_with_ids) :
               (i < j /\ item_list_with_ids[i][1] = item_list_with_ids[j][1])
                   => FirstSeen(item_list_with_ids[i][2])
                          < FirstSeen(item_list_with_ids[j][2])

\* C3 as amended: the catalog given to the first picker is ascending by
\* label, and entries of equal label are in ascending order of identifier.
C3_TiesInIdentifierOrder ==
    pc = "pick_item" =>
        /\ CatalogSortedByLabel
        /\ \A i, j \in 1..Len(item_list_with_ids) :
               (i < j /\ item_list_with_ids[i][1] = item_list_with_ids[j][1])
                   => item_list_with_ids[i][2] < item_list_with_ids[j][2]

\* A catalog of three entries given to the picker, two of equal label whose
\* identifiers were first seen in the other order.
C3_Witness ==
    /\ pc = "pick_item"
    /\ Len(item_list_with_ids) = 3
    /\ \E i, j \in 1..Len(item_list_with_ids) :
           /\ i < j
           /\ item_list_with_ids[i][1] = item_list_with_ids[j][1]
           /\ FirstSeen(item_list_with_ids[i][2])
                  > FirstSeen(item_list_with_ids[j][2])
    /\ \E i, j \in 1..Len(item_list_with_ids) :
           StrLess(item_list_with_ids[i][1], item_list_with_ids[j][1])

\* C4: once a picker has returned the empty result, main has returned
\* normally, and the opener has not been called and no error shown; no
\* later step exists that could change this.
C4_CancelEndsQuietly ==
    selected_index = <<>> =>
        /\ pc = "done"
        /\ raised = NoError
        /\ ExitStatus = 0
        /\ opened = <<>>
        /\ shown = <<>>
        /\ ~ENABLED Next

\* The attachment picker was cancelled, after an item had been picked.
C4_Witness ==
    /\ selected_index = <<>>
    /\ item_id # 0
    /\ files # <<>>

\* C5 as stated: when the chosen file does not exist, the opener is not
\* called, an error message is shown, and the run ends with a non-zero exit
\* status.
C5_MissingFileFailsRun ==
    file_exists = <<FALSE>> =>
        /\ opened = <<>>
        /\ shown # <<>>
        /\ pc = "done"
        /\ ExitStatus # 0

\* C5 as amended: when the chosen file does not exist, the opener is not
\* called, the error message naming the file is shown, and main returns
\* normally, so the exit status is 0.
C5_MissingFileShowsError ==
    file_exists = <<FALSE>> =>
        /\ opened = <<>>
        /\ shown = <<ErrorMessage(file_to_open)>>
        /\ pc = "done"
        /\ raised = NoError
        /\ ExitStatus = 0

\* The file picked in the second picker does not exist.
C5_Witness ==
    /\ file_exists = <<FALSE>>
    /\ files # <<>>
    /\ selected_index # <<>>

\* The rows were loaded: the copy was made, no query failed, the copy was
\* removed.
RowsLoaded ==
    pc \notin {"copy", "query_authors", "query_titles", "query_dates",
               "query_paths", "remove"}
        /\ raised \notin {"FileNotFoundError", "sqlite3.Error"}

\* C6: with an empty author row sequence main does not end in an unhandled
\* exception: the author map is empty and the run goes on.
C6_EmptyAuthorsHandled ==
    (RowsLoaded /\ all_authors = <<>>) =>
        /\ raised = NoError
        /\ authors = <<>>

\* C7: no run that has ended leaves the temporary copy in place.
C7_CopyRemovedAtEnd == pc = "done" => ~database_copy

\* C8: every identifier of the catalog given to the first picker has a
\* non-empty path list, so that the lookup of the picked item's paths
\* never fails.
C8_CatalogItemsHavePaths ==
    /\ pc = "pick_item" =>
           \A i \in 1..Len(item_list_with_ids) :
               /\ Has(paths, item_list_with_ids[i][2])
               /\ Get(paths, item_list_with_ids[i][2]) # <<>>
    /\ raised # "KeyError"

\* The path dict as the path loop left it.
ResolvedPaths == PathLoop(all_paths, keys, <<>>).paths

\* The catalog has been handed to the first picker and main goes on.
AfterCatalog == pc \in {"pick_item", "pick_attachment", "open"}

\* C9 as stated: after the catalog has been handed to the first picker
\* every path list is as the path loop left it, in the order of the rows,
\* and the second picker shows the picked item's list in that order.
C9_PathListsKeepRowOrder ==
    AfterCatalog =>
        /\ paths = ResolvedPaths
        /\ pc = "pick_attachment" =>
               files = FormatFiles(Get(ResolvedPaths, item_id))

Ascending(xs) == \A i, j \in 1..Len(xs) : i < j => ~PathLess(xs[j], xs[i])

Count(xs, x) == Cardinality({i \in 1..Len(xs) : xs[i] = x})

SameElements(xs, ys) ==
    /\ Len(xs) = Len(ys)
    /\ \A x \in Range(xs) \cup Range(ys) : Count(xs, x) = Count(ys, x)

\* C9 as amended: after the catalog has been handed to the first picker,
\* the picked item's path list is the list the path loop left, sorted
\* ascending; it is that sorted list the second picker shows and its index
\* addresses; every other item's list is as the path loop left it.
C9_PickedListSorted ==
    AfterCatalog =>
        /\ Len(paths) = Len(ResolvedPaths)
        /\ \A i \in 1..Len(paths) :
               /\ paths[i][1] = ResolvedPaths[i][1]
               /\ IF paths[i][1] = item_id
                  THEN /\ Ascending(paths[i][2])
                       /\ SameElements(paths[i][2], ResolvedPaths[i][2])
                  ELSE paths[i][2] = ResolvedPaths[i][2]
        /\ pc = "pick_attachment" =>
               /\ Len(files) = Len(Get(paths, item_id))
               /\ \A k \in 1..Len(files) :
                      files[k] = format_path(Get(paths, item_id)[k],
                                             FORMAT_PATH_MAXLEN,
                                             FORMAT_PATH_FULLPATH,
                                             FORMAT_PATH_ENDING_FRACTION)
        /\ (pc = "open" /\ files # <<>>) =>
               file_to_open = Get(paths, item_id)[ParseInt(selected_index) + 1]

\* The second picker shows a list whose row order was not ascending, and
\* another item's list is in the dict.
C9_Witness ==
    /\ pc = "pick_attachment"
    /\ Get(paths, item_id) # Get(ResolvedPaths, item_id)
    /\ Len(paths) = 2

\* The string format_path works on.
FpString == IF fp_fullpath THEN PathStr(fp_path) ELSE PathName(fp_path)

FirstChars(str, n) == SubSeq(str, 1, Min(Max(n, 0), Len(str)))

LastChars(str, n) == SubSeq(str, Len(str) - Min(Max(n, 0), Len(str)) + 1, Len(str))

\* C10: a string of at most maxlen characters is returned unchanged; a
\* longer one becomes exactly maxlen characters: its first starting_chars
\* characters, one ellipsis and its last ending_chars characters, with
\* ending_chars = round(maxlen * ending_fraction) - 1 and
\* starting_chars = maxlen - ending_chars - 1, also when ending_chars is 0
\* or negative.
C10_ShortenedToMaxlen ==
    fp_result # None =>
        LET ending_chars   == Round(fp_maxlen * fp_ending_fraction[1],
                                    fp_ending_fraction[2]) - 1
            starting_chars == fp_maxlen - ending_chars - 1
        IN  IF Len(FpString) <= fp_maxlen THEN fp_result = FpString
            ELSE /\ Len(fp_result) = fp_maxlen
                 /\ fp_result = FirstChars(FpString, starting_chars)
                                    \o <<Ellipsis>>
                                    \o LastChars(FpString, ending_chars)

====
